---------------------------- MODULE Spec2Model ----------------------------
(***************************************************************************)
(* State-machine model of the pico2w-bootloader-rs second-stage bootloader *)
(* (src/src/main.rs): boot decision, serial update protocol, image         *)
(* validation and launch.                                                  *)
(*                                                                         *)
(* Representation.                                                         *)
(*  - A byte is a number in 0..255.  A u32 is a pair <<hi, lo>> of 16-bit   *)
(*    halves (value hi * 65536 + lo), because the model checker's integers *)
(*    are narrower than 2^32; u32 arithmetic wraps modulo 2^32.            *)
(*  - flash is the byte content of the flash device, indexed by the offset *)
(*    from FLASH_BASE_ADDR.                                                *)
(*  - The flash geometry is scaled down so that whole images can be        *)
(*    enumerated: METADATA_SIZE is 16 (source 256), the erase block and    *)
(*    the chunk buffer are 32 (source 4096), APP_OFFSET is one erase block *)
(*    (source 64 KiB) and the device holds 5 erase blocks (source 2 MiB).  *)
(*    The relations the code relies on are kept: the erase block is a      *)
(*    power of two, METADATA_SIZE < erase block, the metadata record (12   *)
(*    bytes) fits the metadata page, APP_OFFSET is erase-block aligned and *)
(*    the chunk size equals the erase block.  u32 keeps its full width.    *)
(*  - One action is one run of the single task between two suspension      *)
(*    points (serial read, serial write, timer wait); flash erase/program  *)
(*    are blocking calls inside an action.                                 *)
(***************************************************************************)
EXTENDS Integers, Sequences, FiniteSets, TLC

VARIABLES
    flash,            \* flash content, offset -> byte
    pc,               \* position of the task
    now,              \* monotonic time since boot, in seconds
    start_time,       \* main: start_time
    timer_at,         \* expiry of the timer armed by select(Timer::after(remaining), ..)
    app_healthy,      \* main: app_healthy
    update_mode,      \* main: update_mode
    len,              \* main: len (u32)
    crc_val,          \* main: crc_val (u32)
    received,         \* main: received
    cpu,              \* vector-base register, stack pointer and program counter after launch
    uart_tx,          \* bytes sent to the peer in this boot, in order
    ops,              \* history: flash operations issued in this boot, in order
    rx,               \* history: payload bytes read successfully in this session, in order
    faults,           \* history: faults seen in this boot
    hist,             \* history: counters and flags of this boot
    sessions          \* number of update transfers the peer has started

vars == <<flash, pc, now, start_time, timer_at, app_healthy,
          update_mode, len, crc_val, received, cpu, uart_tx, ops, rx, faults,
          hist, sessions>>

-----------------------------------------------------------------------------
(* Program constants (scaled geometry, see above).                         *)

APP_OFFSET == 32
METADATA_SIZE == 16
ERASE_SIZE == 32
CHUNK_SIZE == 32
FLASH_SIZE == 160
TIMEOUT_SECS == 3
ACK == 6
SYNC_BYTE == 170
ERASED == 255

MAGIC_APPS == <<65, 80, 80, 83>>

(* Model bound: the peer starts at most this many update transfers.        *)
MaxSessions == 1

-----------------------------------------------------------------------------
(* u32 as <<hi, lo>>.                                                      *)

U32(n) == <<n \div 65536, n % 65536>>

ToNat(w) == w[1] * 65536 + w[2]

Lt32(a, b) == a[1] < b[1] \/ (a[1] = b[1] /\ a[2] < b[2])

Gt32(a, b) == Lt32(b, a)

\* u32::from_le_bytes
from_le_bytes(b) == <<b[4] * 256 + b[3], b[2] * 256 + b[1]>>

\* u32::to_le_bytes
to_le_bytes(w) == <<w[2] % 256, w[2] \div 256, w[1] % 256, w[1] \div 256>>

RECURSIVE Xor(_, _)
Xor(a, b) == IF a = 0 THEN b ELSE IF b = 0 THEN a
             ELSE ((a + b) % 2) + 2 * Xor(a \div 2, b \div 2)

RECURSIVE BitAnd(_, _)
BitAnd(a, b) == IF a = 0 \/ b = 0 THEN 0
                ELSE ((a % 2) * (b % 2)) + 2 * BitAnd(a \div 2, b \div 2)

Xor32(v, w) == <<Xor(v[1], w[1]), Xor(v[2], w[2])>>

-----------------------------------------------------------------------------
(* CRC-32/ISO-HDLC (crc::CRC_32_ISO_HDLC): reflected polynomial            *)
(* 0xEDB88320, initial value 0xFFFFFFFF, final xor 0xFFFFFFFF.             *)

CRC_POLY == <<60856, 33568>>

ALL_ONES == <<65535, 65535>>

Shr1(v) == <<v[1] \div 2, (v[2] \div 2) + 32768 * (v[1] % 2)>>

Shr8(v) == <<v[1] \div 256, (v[2] \div 256) + 256 * (v[1] % 256)>>

RECURSIVE CrcBits(_, _)
CrcBits(v, n) ==
    IF n = 0 THEN v
    ELSE CrcBits(IF v[2] % 2 = 1 THEN Xor32(Shr1(v), CRC_POLY) ELSE Shr1(v), n - 1)

CrcTable == [i \in 0..255 |-> CrcBits(<<0, i>>, 8)]

CrcByte(v, b) == Xor32(CrcTable[Xor(v[2] % 256, b)], Shr8(v))

\* digest.update: the register after bytes lo..hi of data, folded over the two
\* halves of the range (the test on w only makes the evaluation of w strict)
RECURSIVE CrcUpdate(_, _, _, _)
CrcUpdate(v, data, lo, hi) ==
    IF lo > hi THEN v
    ELSE IF lo = hi THEN CrcByte(v, data[lo])
    ELSE LET mid == (lo + hi) \div 2
             w == CrcUpdate(v, data, lo, mid)
         IN IF w[1] >= 0 THEN CrcUpdate(w, data, mid + 1, hi) ELSE w

Crc32(data) == Xor32(CrcUpdate(ALL_ONES, data, 1, Len(data)), ALL_ONES)


-----------------------------------------------------------------------------
(* u32 arithmetic on two u32 operands.                                     *)

Add32(a, b) ==
    LET lo == a[2] + b[2]
        hi == a[1] + b[1] + (lo \div 65536)
    IN <<hi % 65536, lo % 65536>>

AddOv(a, b) == a[1] + b[1] + ((a[2] + b[2]) \div 65536) >= 65536

\* a - b for b <= a
Sub32(a, b) ==
    IF a[2] >= b[2] THEN <<a[1] - b[1], a[2] - b[2]>>
    ELSE <<a[1] - b[1] - 1, a[2] + 65536 - b[2]>>

-----------------------------------------------------------------------------
(* Address map.                                                            *)

FLASH_BASE_ADDR == <<4096, 0>>                      \* 0x1000_0000

APP_BASE == Add32(FLASH_BASE_ADDR, U32(APP_OFFSET))

REAL_APP_BASE == Add32(APP_BASE, U32(METADATA_SIZE))

RAM_LOW == <<8192, 0>>                              \* 0x2000_0000

RAM_HIGH == <<8200, 8192>>                          \* 0x2008_2000

ENTRY_LOW == <<4096, 0>>                            \* 0x1000_0000

\* offset into the flash device of a memory-mapped flash address
Off(addr) == ToNat(Sub32(addr, FLASH_BASE_ADDR))

\* core::slice::from_raw_parts(addr as *const u8, n) over memory-mapped flash
ReadBytes(f, addr, n) == [i \in 1..n |-> f[Off(addr) + i - 1]]

\* *(addr as *const u32)
ReadU32(f, addr) == from_le_bytes(ReadBytes(f, addr, 4))

\* the number of bytes of a slice of l bytes at addr that lie inside the device
InDevice(addr, l) ==
    IF l[1] = 0 /\ Off(addr) + l[2] <= FLASH_SIZE THEN l[2] ELSE FLASH_SIZE - Off(addr)

-----------------------------------------------------------------------------
(* Image Validator.                                                        *)

verify_flash_crc_skipped(f, address, l, expected) == TRUE

verify_flash_crc_one_more(f, address, l, expected) ==
    LET data == ReadBytes(f, address, InDevice(address, Add32(l, U32(1))))
        calculated == Crc32(data)
    IN calculated = expected

verify_flash_crc(f, address, l, expected) ==
    LET data == ReadBytes(f, address, InDevice(address, l))
        calculated == Crc32(data)
    IN calculated = expected

is_app_healthy_sp_exclusive(f, address) ==
    LET magic == ReadBytes(f, address, 4)
    IN IF magic # MAGIC_APPS THEN FALSE
       ELSE LET l == ReadU32(f, Add32(address, U32(4)))
                expected_crc == ReadU32(f, Add32(address, U32(8)))
                sp == ReadU32(f, Add32(address, U32(METADATA_SIZE)))
            IN IF Lt32(sp, RAM_LOW) \/ ~Lt32(sp, RAM_HIGH) THEN FALSE
               ELSE verify_flash_crc(f, Add32(address, U32(METADATA_SIZE)), l, expected_crc)

is_app_healthy(f, address) ==
    LET magic == ReadBytes(f, address, 4)
    IN IF magic # MAGIC_APPS THEN FALSE
       ELSE LET l == ReadU32(f, Add32(address, U32(4)))
                expected_crc == ReadU32(f, Add32(address, U32(8)))
                sp == ReadU32(f, Add32(address, U32(METADATA_SIZE)))
            IN IF Lt32(sp, RAM_LOW) \/ Gt32(sp, RAM_HIGH) THEN FALSE
               ELSE verify_flash_crc(f, Add32(address, U32(METADATA_SIZE)), l, expected_crc)

-----------------------------------------------------------------------------
(* Launch Sequencer.  The result is the task state s after the call: the   *)
(* halt loop, or the control transfer with the vector base written.        *)

NoCpu == [vtor |-> <<0, 0>>, sp |-> <<0, 0>>, pc |-> <<0, 0>>]

jump_to_app_no_sp_check(s, address) ==
    LET sp == ReadU32(s.flash, address)
        reset_handler == ReadU32(s.flash, Add32(address, U32(4)))
    IN IF Lt32(sp, RAM_LOW) \/ Lt32(reset_handler, ENTRY_LOW)
       THEN [s EXCEPT !.pc = "halt"]
       ELSE [s EXCEPT !.pc = "app",
                      !.cpu = [vtor |-> address, sp |-> sp, pc |-> reset_handler]]

jump_to_app(s, address) ==
    LET sp == ReadU32(s.flash, address)
        reset_handler == ReadU32(s.flash, Add32(address, U32(4)))
    IN IF Lt32(sp, RAM_LOW) \/ Gt32(sp, RAM_HIGH) \/ Lt32(reset_handler, ENTRY_LOW)
       THEN [s EXCEPT !.pc = "halt"]
       ELSE [s EXCEPT !.pc = "app",
                      !.cpu = [vtor |-> address, sp |-> sp, pc |-> reset_handler]]

\* main, lines 163-168: the fall-through to the launch
LaunchTail(s) == jump_to_app(s, REAL_APP_BASE)

-----------------------------------------------------------------------------
(* Flash driver (embassy_rp::flash through embedded_storage NorFlash), as  *)
(* the code uses it: erase(from, to) and write(offset, bytes) return Ok or *)
(* Err.  A range outside the device, or an inverted range, is an Err.  A   *)
(* device error is an input of the action.  Programming clears bits only   *)
(* (NOR flash): the result is the old byte AND the new byte.               *)

EraseRangeValid(from, to) == ~Lt32(to, from) /\ ~Gt32(to, U32(FLASH_SIZE))

FlashErase(f, from, to) ==
    [a \in DOMAIN f |-> IF a >= ToNat(from) /\ a < ToNat(to) THEN ERASED ELSE f[a]]

ProgramRangeValid(offset, n) == offset + n <= FLASH_SIZE

\* the first k bytes of data programmed at offset
FlashProgram(f, offset, data, k) ==
    [a \in DOMAIN f |->
        IF a >= offset /\ a < offset + k THEN BitAnd(f[a], data[a - offset + 1]) ELSE f[a]]

\* outcomes of a program of n bytes: n = Ok, fewer = Err after that many bytes
ProgramOutcomes(n) == {n, 0, n - 1}

-----------------------------------------------------------------------------
(* Inputs: what the peer sends and what the flash holds at first boot.     *)

Kinds == {"good", "good_low", "sp_low", "sp_high", "entry_low", "entry_high"}

\* the stack-pointer word of an image of kind k
KindSp(k) ==
    CASE k = "good_low" -> RAM_LOW
      [] k = "sp_low"   -> <<8191, 65535>>          \* 0x1FFF_FFFF
      [] k = "sp_high"  -> <<8200, 8193>>           \* 0x2008_2001
      [] OTHER          -> RAM_HIGH

\* the reset-entry word of an image of kind k
KindEntry(k) ==
    CASE k = "good_low"   -> ENTRY_LOW
      [] k = "entry_low"  -> <<4095, 65535>>        \* 0x0FFF_FFFF
      [] k = "entry_high" -> <<8192, 1>>            \* 0x2000_0001
      [] OTHER            -> Add32(REAL_APP_BASE, U32(9))

\* byte i (from 1) of the image of kind k: the two vector words, then code
ImgByte(k, i) ==
    IF i <= 4 THEN to_le_bytes(KindSp(k))[i]
    ELSE IF i <= 8 THEN to_le_bytes(KindEntry(k))[i - 4]
    ELSE (i * 7) % 251

Img(k, from, n) == [i \in 1..n |-> ImgByte(k, from + i)]

\* lengths whose erase size computation wraps: to 0, and to one erase block
WrapToZero == Sub32(ALL_ONES, U32(METADATA_SIZE + ERASE_SIZE - 2))

PayloadLens == {0, 8, 33, 64}

HeaderLens ==
    {U32(n) : n \in PayloadLens} \cup
    {U32(200), WrapToZero, Sub32(WrapToZero, U32(1)), ALL_ONES}

BadCrc == <<57005, 48879>>                          \* 0xDEAD_BEEF

\* the images whose checksum the peer may announce
CrcKinds == {"good", "sp_high"}

HeaderCrcs(l) ==
    IF l[1] = 0 /\ l[2] \in PayloadLens
    THEN {Crc32(Img(k, 0, l[2])) : k \in CrcKinds} \cup {BadCrc}
    ELSE {BadCrc}

Headers == UNION {{to_le_bytes(l) \o to_le_bytes(c) : c \in HeaderCrcs(l)} : l \in HeaderLens}

WaitBytes == {117, 112, 120, SYNC_BYTE}             \* 'u', 'p', 'x', 0xAA

SyncBytes == {SYNC_BYTE, 117, 0}

Zeros(n) == [i \in 1..n |-> 0]

MetadataRecord_swapped(l, c) ==
    MAGIC_APPS \o to_le_bytes(c) \o to_le_bytes(l) \o Zeros(METADATA_SIZE - 12)

\* the metadata record of main, lines 142-145
MetadataRecord(l, c) ==
    MAGIC_APPS \o to_le_bytes(l) \o to_le_bytes(c) \o Zeros(METADATA_SIZE - 12)

\* a device whose application area holds the bytes `area`, the rest erased
MkFlash(area) ==
    [a \in 0..(FLASH_SIZE - 1) |->
        IF a < APP_OFFSET THEN (a * 5) % 256        \* the bootloader's own code
        ELSE IF a - APP_OFFSET < Len(area) THEN area[a - APP_OFFSET + 1]
        ELSE ERASED]

Installed(k, n) == MkFlash(MetadataRecord(U32(n), Crc32(Img(k, 0, n))) \o Img(k, 0, n))

InitFlash ==
    {MkFlash(<<>>)} \cup
    {Installed(k, 33) : k \in {"good", "sp_high", "entry_low", "entry_high"}}

-----------------------------------------------------------------------------
(* The task state as a record, so that the code's straight-line sections   *)
(* compose as functions from state to state.                               *)

Cur ==
    [flash |-> flash, pc |-> pc, now |-> now, start_time |-> start_time,
     timer_at |-> timer_at, app_healthy |-> app_healthy,
     update_mode |-> update_mode, len |-> len, crc_val |-> crc_val,
     received |-> received, cpu |-> cpu, uart_tx |-> uart_tx, ops |-> ops,
     rx |-> rx, faults |-> faults, hist |-> hist]

Set(s) ==
    /\ flash' = s.flash
    /\ pc' = s.pc
    /\ now' = s.now
    /\ start_time' = s.start_time
    /\ timer_at' = s.timer_at
    /\ app_healthy' = s.app_healthy
    /\ update_mode' = s.update_mode
    /\ len' = s.len
    /\ crc_val' = s.crc_val
    /\ received' = s.received
    /\ cpu' = s.cpu
    /\ uart_tx' = s.uart_tx
    /\ ops' = s.ops
    /\ rx' = s.rx
    /\ faults' = s.faults
    /\ hist' = s.hist

\* history of one boot
NoHist ==
    [session |-> FALSE,        \* the update protocol was entered
     wait_reads |-> FALSE,     \* a serial read completed in the wait window
     stray |-> FALSE,          \* a byte or a failed read was ignored in the wait window
     key |-> FALSE,            \* 'u' or 'p' was read in the wait window
     exit_time |-> -1,         \* when the wait loop was left for boot
     header |-> <<>>,          \* the 8 header bytes, once read
     erase_ok |-> FALSE,       \* flash.erase returned Ok
     tx_kinds |-> <<>>,        \* what each byte of uart_tx acknowledges
     verify |-> "none",        \* result of the CRC check after the loop
     commit |-> "none",        \* result of the metadata program
     tfault |-> FALSE,         \* a serial read or write failed in the session
     io_after_tfault |-> FALSE \* a read, program or ack was issued after that
    ]

Fresh(f) ==
    [flash |-> f, pc |-> "boot", now |-> 0, start_time |-> 0, timer_at |-> 0,
     app_healthy |-> FALSE, update_mode |-> FALSE, len |-> <<0, 0>>,
     crc_val |-> <<0, 0>>, received |-> 0, cpu |-> NoCpu, uart_tx |-> <<>>,
     ops |-> <<>>, rx |-> <<>>, faults |-> {}, hist |-> NoHist]

\* a session I/O operation is issued: note whether a transport fault preceded it
Io(s) == [s EXCEPT !.hist.io_after_tfault = @ \/ s.hist.tfault]

\* a serial read or write of the session failed
TransportFault(s, what) ==
    [s EXCEPT !.hist.tfault = TRUE, !.faults = @ \cup {what}]

Fault(s, what) == [s EXCEPT !.faults = @ \cup {what}]

Terminal == {"reset", "app", "halt", "panic"}

-----------------------------------------------------------------------------
(* Boot Decision State Machine: main, lines 50-88.                         *)

\* main, lines 88-91: the update protocol starts, waiting for the sync byte.
\* The wait loop's locals are out of scope and the clock is not read again.
EnterUpdate(s) ==
    [s EXCEPT !.pc = "sync", !.hist.session = TRUE,
              !.now = 0, !.start_time = 0, !.timer_at = 0]

Remaining_fresh(elapsed) == TIMEOUT_SECS

\* main, line 65
Remaining(elapsed) == TIMEOUT_SECS - elapsed

\* main, lines 61-63 and 67-69, then 88 and 163-168: the wait loop is left for boot
LeaveWait(s) == LaunchTail([s EXCEPT !.hist.exit_time = s.now])

\* main, lines 59-66: the head of the wait loop, up to the select
WaitLoop(s) ==
    LET elapsed == s.now - s.start_time
    IN IF elapsed >= TIMEOUT_SECS THEN LeaveWait(s)
       ELSE [s EXCEPT !.timer_at = s.now + Remaining(elapsed), !.pc = "wait"]

BootStep_always_wait(s) ==
    LET healthy == is_app_healthy(s.flash, APP_BASE)
        s1 == [s EXCEPT !.app_healthy = healthy, !.update_mode = ~healthy]
    IN WaitLoop([s1 EXCEPT !.start_time = s1.now])

\* main, lines 50-58
BootStep(s) ==
    LET healthy == is_app_healthy(s.flash, APP_BASE)
        s1 == [s EXCEPT !.app_healthy = healthy, !.update_mode = ~healthy]
    IN IF s1.update_mode THEN EnterUpdate(s1)
       ELSE WaitLoop([s1 EXCEPT !.start_time = s1.now])

\* main, lines 71-83: the serial read won the select; the task resumes d later
WaitByteStep(s, ok, c, d) ==
    LET s1 == [s EXCEPT !.hist.wait_reads = TRUE, !.now = s.now + d]
    IN IF ok /\ (c = 117 \/ c = 112)
       THEN EnterUpdate([s1 EXCEPT !.update_mode = TRUE, !.hist.key = TRUE])
       ELSE WaitLoop([s1 EXCEPT !.hist.stray = TRUE])

-----------------------------------------------------------------------------
(* Update Transport Protocol: main, lines 92-161.                          *)

SyncStep_echo(s, ok, c) ==
    LET s1 == Io(s)
    IN IF ok THEN (IF c = SYNC_BYTE THEN [s1 EXCEPT !.pc = "header"]
                   ELSE [s1 EXCEPT !.uart_tx = Append(@, c)])
       ELSE TransportFault(s1, "read_sync")

\* main, lines 92-98: one read of the sync loop
SyncStep(s, ok, c) ==
    LET s1 == Io(s)
    IN IF ok THEN (IF c = SYNC_BYTE THEN [s1 EXCEPT !.pc = "header"] ELSE s1)
       ELSE TransportFault(s1, "read_sync")

\* main, line 107: (len + METADATA_SIZE + 4095) & !4095, wrapping
TotalErase(l) ==
    LET sum == Add32(Add32(l, U32(METADATA_SIZE)), U32(ERASE_SIZE - 1))
    IN <<sum[1], sum[2] - (sum[2] % ERASE_SIZE)>>

\* TRUE iff an addition of lines 107-109 does not fit a u32
EraseOverflows(l) ==
    \/ AddOv(l, U32(METADATA_SIZE))
    \/ AddOv(Add32(l, U32(METADATA_SIZE)), U32(ERASE_SIZE - 1))
    \/ AddOv(U32(APP_OFFSET), TotalErase(l))

AfterLoop_no_reset(s, metaK) ==
    IF U32(s.received) = s.len
    THEN IF verify_flash_crc(s.flash, Add32(APP_BASE, U32(METADATA_SIZE)), s.len, s.crc_val)
         THEN LET metadata == MetadataRecord(s.len, s.crc_val)
                  valid == ProgramRangeValid(APP_OFFSET, METADATA_SIZE)
                  k == IF valid THEN metaK ELSE 0
                  done == valid /\ k = METADATA_SIZE
                  s1 == [Io(s) EXCEPT
                            !.hist.verify = "match",
                            !.flash = FlashProgram(s.flash, APP_OFFSET, metadata, k),
                            !.ops = Append(@, [op |-> "program", at |-> "meta",
                                               off |-> APP_OFFSET,
                                               to |-> U32(APP_OFFSET + METADATA_SIZE),
                                               ok |-> done, k |-> k]),
                            !.hist.commit = IF done THEN "ok" ELSE "failed"]
              IN IF done THEN LaunchTail(s1)
                 ELSE LaunchTail(Fault(s1, "program_meta"))
         ELSE LaunchTail(Fault([s EXCEPT !.hist.verify = "mismatch"], "crc"))
    ELSE LaunchTail(s)

\* main, lines 138-161 and 163-168: after the receive loop.  metaK is the
\* outcome of the metadata program, if it is issued.
AfterLoop(s, metaK) ==
    IF U32(s.received) = s.len
    THEN IF verify_flash_crc(s.flash, Add32(APP_BASE, U32(METADATA_SIZE)), s.len, s.crc_val)
         THEN LET metadata == MetadataRecord(s.len, s.crc_val)
                  valid == ProgramRangeValid(APP_OFFSET, METADATA_SIZE)
                  k == IF valid THEN metaK ELSE 0
                  done == valid /\ k = METADATA_SIZE
                  s1 == [Io(s) EXCEPT
                            !.hist.verify = "match",
                            !.flash = FlashProgram(s.flash, APP_OFFSET, metadata, k),
                            !.ops = Append(@, [op |-> "program", at |-> "meta",
                                               off |-> APP_OFFSET,
                                               to |-> U32(APP_OFFSET + METADATA_SIZE),
                                               ok |-> done, k |-> k]),
                            !.hist.commit = IF done THEN "ok" ELSE "failed"]
              IN IF done THEN [s1 EXCEPT !.pc = "reset"]
                 ELSE LaunchTail(Fault(s1, "program_meta"))
         ELSE LaunchTail(Fault([s EXCEPT !.hist.verify = "mismatch"], "crc"))
    ELSE LaunchTail(s)

\* main, line 120: the head of the receive loop
ReceiveLoop(s, metaK) ==
    IF Lt32(U32(s.received), s.len) THEN [s EXCEPT !.pc = "recv"]
    ELSE AfterLoop(s, metaK)

\* main, lines 100-111: the header read, then the erase
HeaderStep(s, checks, ok, header, eraseOk) ==
    LET s0 == Io(s)
    IN IF ~ok THEN LaunchTail(TransportFault(s0, "read_header"))
       ELSE LET l == from_le_bytes(SubSeq(header, 1, 4))
                c == from_le_bytes(SubSeq(header, 5, 8))
                s1 == [s0 EXCEPT !.len = l, !.crc_val = c, !.hist.header = header]
            IN IF checks /\ EraseOverflows(l) THEN [s1 EXCEPT !.pc = "panic"]
               ELSE LET total_erase == TotalErase(l)
                        to == Add32(U32(APP_OFFSET), total_erase)
                        erased == eraseOk /\ EraseRangeValid(U32(APP_OFFSET), to)
                        s2 == [s1 EXCEPT
                                  !.ops = Append(@, [op |-> "erase", at |-> "area",
                                                     off |-> APP_OFFSET, to |-> to,
                                                     ok |-> erased, k |-> 0])]
                    IN IF ~erased THEN LaunchTail(Fault(s2, "erase"))
                       ELSE [s2 EXCEPT
                                !.flash = FlashErase(s.flash, U32(APP_OFFSET), to),
                                !.hist.erase_ok = TRUE,
                                !.pc = "erase_ack"]

\* uart.write(&[0x06]) whose result is dropped: main, lines 114 and 131
SendAck(s, wok, kind) ==
    LET s1 == Io(s)
    IN IF wok THEN [s1 EXCEPT !.uart_tx = Append(@, ACK),
                              !.hist.tx_kinds = Append(@, kind)]
       ELSE TransportFault(s1, "write_ack")

\* main, lines 114-120: the erase acknowledgement, then the loop head
EraseAckStep(s, wok, metaK) ==
    ReceiveLoop([SendAck(s, wok, "erase") EXCEPT !.received = 0], metaK)

ChunkLen_whole_buffer(s) == CHUNK_SIZE

\* main, line 121
ChunkLen(s) ==
    LET rest == Sub32(s.len, U32(s.received))
    IN IF rest[1] > 0 \/ rest[2] >= CHUNK_SIZE THEN CHUNK_SIZE ELSE rest[2]

ChunkStep_ack_on_failure(s, ok, data, k, metaK) ==
    LET chunk_len == Len(data)
        s0 == Io(s)
    IN IF ~ok THEN AfterLoop(TransportFault(s0, "read_chunk"), metaK)
       ELSE LET offset == APP_OFFSET + METADATA_SIZE + s.received
                valid == ProgramRangeValid(offset, chunk_len)
                kk == IF valid THEN k ELSE 0
                written == valid /\ kk = chunk_len
                s1 == [s0 EXCEPT
                          !.rx = @ \o data,
                          !.flash = FlashProgram(s.flash, offset, data, kk),
                          !.ops = Append(@, [op |-> "program", at |-> "chunk",
                                             off |-> offset,
                                             to |-> U32(offset + chunk_len),
                                             ok |-> written, k |-> kk])]
            IN [s1 EXCEPT !.received = @ + chunk_len, !.pc = "chunk_ack"]

\* main, lines 121-135: one chunk read and its program.  k is the outcome
\* of the program.
ChunkStep(s, ok, data, k, metaK) ==
    LET chunk_len == Len(data)
        s0 == Io(s)
    IN IF ~ok THEN AfterLoop(TransportFault(s0, "read_chunk"), metaK)
       ELSE LET offset == APP_OFFSET + METADATA_SIZE + s.received
                valid == ProgramRangeValid(offset, chunk_len)
                kk == IF valid THEN k ELSE 0
                written == valid /\ kk = chunk_len
                s1 == [s0 EXCEPT
                          !.rx = @ \o data,
                          !.flash = FlashProgram(s.flash, offset, data, kk),
                          !.ops = Append(@, [op |-> "program", at |-> "chunk",
                                             off |-> offset,
                                             to |-> U32(offset + chunk_len),
                                             ok |-> written, k |-> kk])]
            IN IF ~written THEN AfterLoop(Fault(s1, "program_chunk"), metaK)
               ELSE [s1 EXCEPT !.received = @ + chunk_len, !.pc = "chunk_ack"]

ChunkAckStep_no_ack(s, wok, metaK) == ReceiveLoop(s, metaK)

\* main, lines 131 and 120: the chunk acknowledgement, then the loop head
ChunkAckStep(s, wok, metaK) == ReceiveLoop(SendAck(s, wok, "chunk"), metaK)

-----------------------------------------------------------------------------
(* The state machine.                                                      *)

\* the images whose bytes from offset r on differ: all images share their code
ChunkKinds(r) == IF r < 8 THEN Kinds ELSE {"good"}

\* the outcomes of the metadata program that matter: only when the loop is over
MetaOutcomes(l, r) ==
    IF U32(r) = l THEN ProgramOutcomes(METADATA_SIZE) ELSE {METADATA_SIZE}

Init ==
    /\ flash \in InitFlash
    /\ sessions = 0
    /\ pc = "boot"
    /\ now = 0
    /\ start_time = 0
    /\ timer_at = 0
    /\ app_healthy = FALSE
    /\ update_mode = FALSE
    /\ len = <<0, 0>>
    /\ crc_val = <<0, 0>>
    /\ received = 0
    /\ cpu = NoCpu
    /\ uart_tx = <<>>
    /\ ops = <<>>
    /\ rx = <<>>
    /\ faults = {}
    /\ hist = NoHist

Boot ==
    /\ pc = "boot"
    /\ Set(BootStep(Cur))
    /\ UNCHANGED sessions

\* time passes while the task waits in the select
Tick ==
    /\ pc = "wait"
    /\ now < timer_at
    /\ now' = now + 1
    /\ UNCHANGED <<flash, pc, start_time, timer_at, app_healthy, update_mode,
                   len, crc_val, received, cpu, uart_tx, ops, rx, faults, hist,
                   sessions>>

\* the timer wins the select
WaitTimer ==
    /\ pc = "wait"
    /\ now = timer_at
    /\ Set(LeaveWait(Cur))
    /\ UNCHANGED sessions

\* the serial read wins the select, before the timer expires
WaitByte ==
    /\ pc = "wait"
    /\ now < timer_at
    /\ \E ok \in BOOLEAN :
          \E c \in (IF ok THEN WaitBytes ELSE {0}), d \in {0, 1} :
             /\ now + d <= timer_at
             /\ Set(WaitByteStep(Cur, ok, c, d))
    /\ UNCHANGED sessions

\* the peer sends the sync byte only to start a transfer
SyncRead ==
    /\ pc = "sync"
    /\ \E ok \in BOOLEAN :
          \E c \in (IF ok THEN SyncBytes ELSE {0}) :
             /\ (ok /\ c = SYNC_BYTE) => sessions < MaxSessions
             /\ Set(SyncStep(Cur, ok, c))
             /\ sessions' = IF ok /\ c = SYNC_BYTE THEN sessions + 1 ELSE sessions

\* checks: the build panics on arithmetic overflow (debug profile) or wraps
HeaderRead ==
    /\ pc = "header"
    /\ \E ok \in BOOLEAN :
          \E header \in (IF ok THEN Headers ELSE {Zeros(8)}) :
             \E checks \in (IF ok /\ EraseOverflows(from_le_bytes(SubSeq(header, 1, 4)))
                            THEN BOOLEAN ELSE {FALSE}),
                eraseOk \in (IF ok THEN BOOLEAN ELSE {FALSE}) :
                Set(HeaderStep(Cur, checks, ok, header, eraseOk))
    /\ UNCHANGED sessions

EraseAck ==
    /\ pc = "erase_ack"
    /\ \E wok \in BOOLEAN, metaK \in MetaOutcomes(len, 0) :
          Set(EraseAckStep(Cur, wok, metaK))
    /\ UNCHANGED sessions

\* a failed read, or a chunk of some image and the outcome of its program
ChunkRead ==
    /\ pc = "recv"
    /\ \E ok \in BOOLEAN :
          \E kind \in (IF ok THEN ChunkKinds(received) ELSE {"good"}),
             k \in (IF ok THEN ProgramOutcomes(ChunkLen(Cur)) ELSE {0}) :
             Set(ChunkStep(Cur, ok, Img(kind, received, ChunkLen(Cur)), k, METADATA_SIZE))
    /\ UNCHANGED sessions

ChunkAck ==
    /\ pc = "chunk_ack"
    /\ \E wok \in BOOLEAN, metaK \in MetaOutcomes(len, received) :
          Set(ChunkAckStep(Cur, wok, metaK))
    /\ UNCHANGED sessions

\* the device restarts: SCB::sys_reset after a committed update, or a
\* hardware reset of a device that runs the application or sits in a halt
Reboot ==
    /\ pc \in Terminal
    /\ Set(Fresh(flash))
    /\ UNCHANGED sessions

Next ==
    \/ Boot
    \/ Tick
    \/ WaitTimer
    \/ WaitByte
    \/ SyncRead
    \/ HeaderRead
    \/ EraseAck
    \/ ChunkRead
    \/ ChunkAck
    \/ Reboot

Spec == Init /\ [][Next]_vars

\* the positions of the task
Positions ==
    {"boot", "wait", "sync", "header", "erase_ack", "recv", "chunk_ack"} \cup Terminal

\* the task leaves position p
Proceeds(p) == pc = p /\ pc' \in Positions \ {p}

\* the peer's sync byte is read
SyncArrives == pc = "sync" /\ sessions < MaxSessions /\ pc' = "header"

\* a second passes in the wait window
TimePasses == pc = "wait" /\ now < timer_at /\ now' = now + 1

\* the wait window ends at the deadline
TimerFires == pc = "wait" /\ now >= timer_at /\ pc' \in {"app", "halt"}

\* Scheduling: the single task runs whenever it is not suspended; every
\* serial read or write of the session completes, with data or an error, so
\* the task leaves the position where it awaits it; the sync byte arrives
\* while the task waits for it; time advances and the timer fires.  A byte
\* in the wait window may never arrive, and nothing restarts a device that
\* has reached a terminal position.
FairSpec ==
    /\ Spec
    /\ WF_pc(Proceeds("boot"))
    /\ WF_now(TimePasses)
    /\ WF_pc(TimerFires)
    /\ WF_pc(SyncArrives)
    /\ WF_pc(Proceeds("header"))
    /\ WF_pc(Proceeds("erase_ack"))
    /\ WF_pc(Proceeds("recv"))
    /\ WF_pc(Proceeds("chunk_ack"))

TypeOK ==
    /\ pc \in {"boot", "wait", "sync", "header", "erase_ack", "recv", "chunk_ack"}
              \cup Terminal
    /\ flash \in [0..(FLASH_SIZE - 1) -> 0..255]
    /\ received \in 0..FLASH_SIZE
    /\ now \in 0..(2 * TIMEOUT_SECS)
    /\ sessions \in 0..MaxSessions

-----------------------------------------------------------------------------
(* The Image Validator alone: is_app_healthy applied once to a flash whose  *)
(* metadata page and application region are drawn from the sets below.     *)

\* metadata length fields: empty, within one chunk, around the chunk boundary
ValidatorLens == {0, 8, 32, 33, 34, 64}

\* the checksum field: the CRC32 of the first n bytes of the application
\* region, of one byte more, of one byte less, or an unrelated value
ValidatorCrcs(k, n) ==
    {Crc32(Img(k, 0, n)), Crc32(Img(k, 0, n + 1)), Crc32(Img(k, 0, IF n = 0 THEN 0 ELSE n - 1)),
     BadCrc}

\* the magic tag, and two tags that differ from it in one byte
ValidatorMagics == {MAGIC_APPS, <<65, 80, 80, 84>>, <<97, 80, 80, 83>>}

\* a device with the given metadata fields and 65 bytes of the image of kind k
ValidatorFlash(magic, n, c, k) ==
    MkFlash(magic \o SubSeq(MetadataRecord(U32(n), c), 5, METADATA_SIZE) \o Img(k, 0, 65))

ValidatorFlashes ==
    UNION {{ValidatorFlash(magic, n, c, k) : magic \in ValidatorMagics, c \in ValidatorCrcs(k, n)} :
              k \in Kinds, n \in ValidatorLens}

ValidatorInit ==
    /\ flash \in ValidatorFlashes
    /\ sessions = 0
    /\ pc = "validate"
    /\ now = 0
    /\ start_time = 0
    /\ timer_at = 0
    /\ app_healthy = FALSE
    /\ update_mode = FALSE
    /\ len = <<0, 0>>
    /\ crc_val = <<0, 0>>
    /\ received = 0
    /\ cpu = NoCpu
    /\ uart_tx = <<>>
    /\ ops = <<>>
    /\ rx = <<>>
    /\ faults = {}
    /\ hist = NoHist

\* main, line 50: the call of is_app_healthy
ValidatorCall ==
    /\ pc = "validate"
    /\ app_healthy' = is_app_healthy(flash, APP_BASE)
    /\ pc' = "validated"
    /\ UNCHANGED <<flash, now, start_time, timer_at, update_mode, len, crc_val,
                   received, cpu, uart_tx, ops, rx, faults, hist, sessions>>

ValidatorNext == ValidatorCall

ValidatorSpec == ValidatorInit /\ [][ValidatorNext]_vars

-----------------------------------------------------------------------------
(* Properties.                                                             *)

\* the flash operations of this boot that program the metadata page
MetaOps == {i \in DOMAIN ops : ops[i].at = "meta"}

\* the chunk programs of this boot that returned Ok
ChunksOk == {i \in DOMAIN ops : ops[i].at = "chunk" /\ ops[i].ok}

\* the content of the metadata page
MetadataPage == ReadBytes(flash, APP_BASE, METADATA_SIZE)

CeilDiv(n, d) == (n + d - 1) \div d

\* the payload bytes programmed by the first n flash operations of this boot
RECURSIVE ProgrammedBytes(_)
ProgrammedBytes(n) ==
    IF n = 0 THEN 0
    ELSE ProgrammedBytes(n - 1) + (IF ops[n].at = "chunk" THEN ops[n].k ELSE 0)

\* C1: metadata-last ordering.  The metadata page is programmed only as the
\* last flash operation of a session whose erase returned Ok, whose chunk
\* programs all returned Ok and cover all len payload bytes (received = len),
\* and whose application range [start, start + len) has the CRC32 the header
\* announced; it is never programmed while received < len or after a CRC
\* mismatch.
C1_MetadataLast ==
    /\ MetaOps # {} =>
          /\ ops[1].op = "erase" /\ ops[1].ok
          /\ MetaOps = {Len(ops)}
          /\ \A i \in 2..(Len(ops) - 1) : ops[i].at = "chunk" /\ ops[i].ok
          /\ U32(received) = len
          /\ ProgrammedBytes(Len(ops)) = received
          /\ Crc32(ReadBytes(flash, REAL_APP_BASE, received)) = crc_val
    /\ (Lt32(U32(received), len) \/ "crc" \in faults) => MetaOps = {}

C1_Witness == MetaOps # {} /\ pc = "reset" /\ received = 33

\* the session ended in Aborted after a successful erase, by one of the
\* faults of C2
AbortedAfterErase ==
    /\ pc \in {"app", "halt"}
    /\ ops # <<>> /\ ops[1].op = "erase" /\ ops[1].ok
    /\ \/ faults \cap {"read_chunk", "program_chunk", "crc"} # {}
       \/ "program_meta" \in faults /\ ops[Len(ops)].k = 0

\* C2: after a successful erase, a session that ends by a read or program
\* failure, a CRC mismatch, or a metadata program failure before any byte is
\* written leaves the metadata page erased, so that isHealthy is false on
\* the next boot.
C2_FaultLeavesNoMetadata ==
    AbortedAfterErase =>
        /\ \A i \in 1..METADATA_SIZE : MetadataPage[i] = ERASED
        /\ ~is_app_healthy(flash, APP_BASE)

\* the stack-pointer word of the image at the launch base is outside RAM
SpOutsideRam ==
    LET sp == ReadU32(flash, REAL_APP_BASE)
    IN Lt32(sp, RAM_LOW) \/ Gt32(sp, RAM_HIGH)

\* C3: an image whose stack-pointer word lies outside [0x20000000,
\* 0x20082000] never reaches the control transfer: the vector base is not
\* written, no jump occurs, and a launch of it ends in the halt loop.
C3_BadSpNeverLaunched ==
    SpOutsideRam => pc # "app" /\ cpu = NoCpu

C3_Witness == SpOutsideRam /\ pc = "halt" /\ hist.session

\* the end of the flash address window of the device
FLASH_END == Add32(FLASH_BASE_ADDR, U32(FLASH_SIZE))

\* C4: the control transfer happens only to an entry address inside the
\* flash address window, lower and upper bound.
C4_EntryInFlashWindow ==
    pc = "app" =>
        LET entry == ReadU32(flash, Add32(REAL_APP_BASE, U32(4)))
        IN ~Lt32(entry, FLASH_BASE_ADDR) /\ Lt32(entry, FLASH_END)

\* the acknowledgements of a full transfer of n payload bytes
FullAcks(n) == [i \in 1..(1 + CeilDiv(n, CHUNK_SIZE)) |-> ACK]

C6_CommittedRecord ==
    MetaOps # {} =>
        LET k == ops[Len(ops)].k
            record == <<65, 80, 80, 83>> \o hist.header \o Zeros(METADATA_SIZE - 12)
        IN /\ \A i \in 1..k : MetadataPage[i] = record[i]
           /\ pc = "reset" => k = METADATA_SIZE
           /\ U32(Len(rx)) = from_le_bytes(SubSeq(hist.header, 1, 4))
           /\ rx = ReadBytes(flash, REAL_APP_BASE, Len(rx))
           /\ SubSeq(hist.header, 5, 8) = to_le_bytes(Crc32(rx))

C6_Witness == pc = "reset" /\ MetadataPage[1] = 65 /\ Len(rx) = 33

\* C7: acknowledgement as backpressure.  A byte is sent only after the erase
\* returned Ok, every byte sent is 0x06, and the chunk-acks sent never
\* exceed the chunks programmed successfully.
C7_AckBackpressure ==
    /\ uart_tx # <<>> => ops # <<>> /\ ops[1].op = "erase" /\ ops[1].ok
    /\ \A i \in DOMAIN uart_tx : uart_tx[i] = ACK
    /\ Len(uart_tx) <= 1 + Cardinality(ChunksOk)
    /\ Cardinality({i \in DOMAIN hist.tx_kinds : hist.tx_kinds[i] = "chunk"})
          <= Cardinality(ChunksOk)
    /\ pc = "chunk_ack" => ops[Len(ops)].at = "chunk" /\ ops[Len(ops)].ok

C7_Witness == Len(uart_tx) = 3 /\ Cardinality(ChunksOk) = 2

\* C8: bytes ignored in the wait window never extend it.  While the task
\* waits, the timer armed is the original deadline start + 3 s, and the wait
\* loop is left for boot no later than that deadline.
C8_StrayBytesKeepDeadline ==
    /\ pc = "wait" => timer_at = start_time + TIMEOUT_SECS /\ now <= timer_at
    /\ hist.exit_time # -1 => hist.exit_time <= start_time + TIMEOUT_SECS

C8_Witness ==
    pc \in {"app", "halt"} /\ hist.stray /\ hist.exit_time = TIMEOUT_SECS

\* C9: update mode is entered iff the image was unhealthy at entry (then no
\* wait, no serial read before the sync loop) or 'u' / 'p' was read in the
\* wait window of a healthy image, before the deadline; otherwise the update
\* protocol is not started and no flash operation is issued in that boot.
C9_UpdateModeEntry ==
    /\ [](pc # "boot" =>
            /\ hist.session <=> (~app_healthy \/ hist.key)
            /\ hist.session <=> update_mode
            /\ ~app_healthy => ~hist.wait_reads /\ hist.exit_time = -1 /\ pc # "wait"
            /\ hist.key => app_healthy
            /\ ~hist.session => ops = <<>> /\ uart_tx = <<>>
            /\ pc \in {"sync", "header", "erase_ack", "recv", "chunk_ack", "reset",
                       "panic"} => hist.session)
    /\ [][(pc = "wait" /\ pc' = "sync") => now < start_time + TIMEOUT_SECS]_vars
    /\ [][flash' # flash => hist.session /\ hist.session']_vars

C9_Witness == pc = "app" /\ app_healthy /\ hist.wait_reads /\ ~hist.session

\* C10: every failed serial read or acknowledgement write of the update
\* session aborts it: the session is then over and no read, program or
\* acknowledgement follows.
C10_TransportFaultAborts ==
    hist.tfault => pc \in {"app", "halt"} /\ ~hist.io_after_tfault

\* the fields of the metadata page
StoredMagic == ReadBytes(flash, APP_BASE, 4)

StoredLen == ReadU32(flash, Add32(APP_BASE, U32(4)))

StoredCrc == ReadU32(flash, Add32(APP_BASE, U32(8)))

\* the length field describes a range inside the device
StoredLenFits == StoredLen[1] = 0 /\ Off(REAL_APP_BASE) + StoredLen[2] <= FLASH_SIZE

\* the metadata page holds the magic tag, a length N and the CRC32 of the
\* first N bytes of the application region
RecordMatchesRegion ==
    /\ StoredMagic = <<65, 80, 80, 83>>
    /\ StoredLenFits
    /\ StoredCrc = Crc32(ReadBytes(flash, REAL_APP_BASE, StoredLen[2]))

\* C11 as stated: for every length N and every content whose first N bytes
\* have CRC32 C, a metadata page with the magic tag, length N and checksum C
\* makes isHealthy return true.
C11_AsStated ==
    (pc = "validated" /\ RecordMatchesRegion) => app_healthy

\* C11, amended: such a metadata page makes isHealthy return true provided
\* the first word of the application region is a stack pointer inside the
\* RAM window [0x20000000, 0x20082000]; otherwise isHealthy returns false.
C11_RoundTrip ==
    (pc = "validated" /\ RecordMatchesRegion) => (app_healthy <=> ~SpOutsideRam)

C11_Witness ==
    /\ pc = "validated" /\ RecordMatchesRegion /\ app_healthy
    /\ StoredLen = U32(33)
    /\ ReadU32(flash, REAL_APP_BASE) = RAM_HIGH

\* C12: isHealthy returns false for every metadata page whose magic tag
\* differs from "APPS", whatever the other fields and the application bytes
\* are; and it returns false whenever the stored checksum differs from the
\* CRC32 of exactly the bytes [start, start + length).
C12_RejectsMismatch ==
    pc = "validated" =>
        /\ StoredMagic # <<65, 80, 80, 83>> => ~app_healthy
        /\ (StoredLenFits /\ StoredCrc # Crc32(ReadBytes(flash, REAL_APP_BASE, StoredLen[2])))
              => ~app_healthy

\* the stored checksum is that of one byte more than the stored length
C12_Witness ==
    /\ pc = "validated" /\ ~app_healthy
    /\ StoredMagic = <<65, 80, 80, 83>> /\ ~SpOutsideRam
    /\ StoredLen = U32(33)
    /\ StoredCrc = Crc32(ReadBytes(flash, REAL_APP_BASE, 34))

\* C13: when the metadata program returns Ok the device resets and the boot
\* never resumes: the metadata program is the last flash operation of that
\* boot, launch is not called (the vector base is untouched), and the only
\* step that follows is the restart of the device with the flash as it is.
C13_DoneResets ==
    /\ [](hist.commit = "ok" =>
            /\ pc = "reset" /\ cpu = NoCpu
            /\ MetaOps = {Len(ops)} /\ ops[Len(ops)].ok)
    /\ [](pc = "reset" => hist.commit = "ok")
    /\ [][pc = "reset" =>
            /\ pc' = "boot" /\ flash' = flash
            /\ ops' = <<>> /\ uart_tx' = <<>> /\ cpu' = NoCpu]_vars

C13_Witness == pc = "reset" /\ hist.commit = "ok" /\ Len(ops) = 4

\* C14: no flash operation is issued and no byte is sent before the sync
\* byte and the whole header have been read; a byte that is not the sync
\* byte is discarded without effect; a failed header read ends the session
\* with the flash as it was at boot and nothing sent.
C14_NoFlashBeforeHeader ==
    /\ [](pc \in {"sync", "header"} => ops = <<>> /\ uart_tx = <<>>)
    /\ []("read_header" \in faults =>
            /\ ops = <<>> /\ uart_tx = <<>> /\ hist.header = <<>>
            /\ pc \in {"app", "halt"})
    /\ [][ops' = <<>> => flash' = flash]_vars
    /\ [][(pc = "sync" /\ pc' = "sync") =>
            UNCHANGED <<flash, uart_tx, ops, len, crc_val, received, cpu, rx>>]_vars

C14_Witness ==
    "read_header" \in faults /\ pc = "halt" /\ flash = MkFlash(<<>>)

\* C15: for every header length the erase is issued over [OFFSET, OFFSET +
\* totalErase) where totalErase is a multiple of the erase block, is at least
\* length + PAGE (the u32 computation does not wrap), is one erase block for
\* length 0, and the range covers every address a chunk is programmed to.
C15_EraseCoversTransfer ==
    /\ pc # "panic"
    /\ (ops # <<>> /\ ops[1].op = "erase") =>
          LET total_erase == TotalErase(len)
          IN /\ total_erase[2] % ERASE_SIZE = 0
             /\ ~Lt32(total_erase, len)
             /\ ~Lt32(Sub32(total_erase, len), U32(METADATA_SIZE))
             /\ len = <<0, 0>> => total_erase = U32(ERASE_SIZE)
             /\ ops[1].off = APP_OFFSET
             /\ ops[1].to = Add32(U32(APP_OFFSET), total_erase)
             /\ \A i \in DOMAIN ops :
                   ops[i].at = "chunk" => ~Gt32(ops[i].to, ops[1].to)

\* C16: the halt loop is reached only in a boot in which isHealthy returned
\* true for the installed image.
C16_HaltOnlyAfterHealthy ==
    pc = "halt" => app_healthy

\* C17: whenever the control transfer happens (vector base written, jump
\* taken), the image in flash satisfies isHealthy at that moment.
C17_LaunchOnlyHealthy ==
    pc = "app" => is_app_healthy(flash, APP_BASE)

\* the flash operations of this boot that program a chunk, Ok or not
ChunkOps == {i \in DOMAIN ops : ops[i].at = "chunk"}

\* C18: receiving-loop invariant.  received never exceeds len and is a
\* multiple of the chunk size unless it equals len; chunk number j (from 0)
\* is programmed at start + j * chunk size, has between 1 and chunk-size
\* bytes, is short only when it ends at start + len, never ends past
\* start + len and never starts below start (the metadata page); each chunk
\* starts where the one before it ends.
C18_ReceivingInvariant ==
    /\ hist.erase_ok =>
          /\ ~Gt32(U32(received), len)
          /\ received % CHUNK_SIZE = 0 \/ U32(received) = len
    /\ pc = "recv" => Lt32(U32(received), len)
    /\ \A i \in ChunkOps :
          LET start == APP_OFFSET + METADATA_SIZE
              size == ToNat(ops[i].to) - ops[i].off
          IN /\ i >= 2 /\ ops[1].op = "erase" /\ ops[1].ok
             /\ ops[i].off = start + (i - 2) * CHUNK_SIZE
             /\ size >= 1 /\ size <= CHUNK_SIZE
             /\ size = CHUNK_SIZE \/ U32(ToNat(ops[i].to) - start) = len
             /\ ~Gt32(U32(ToNat(ops[i].to) - start), len)
             /\ ops[i].k <= size
             /\ (i + 1) \in ChunkOps => ops[i + 1].off = ToNat(ops[i].to) /\ ops[i].ok
    /\ pc = "chunk_ack" => received = ToNat(ops[Len(ops)].to) - (APP_OFFSET + METADATA_SIZE)

C18_Witness ==
    pc = "chunk_ack" /\ received = 33 /\ Cardinality(ChunkOps) = 2 /\ ops[3].off = 80

\* the boot is under way and the peer can still send the sync byte it needs
Running ==
    /\ pc \notin Terminal
    /\ sessions < MaxSessions \/ pc \in {"header", "erase_ack", "recv", "chunk_ack"}

\* C19: every boot ends in exactly one of three terminal transitions, the
\* system reset, the control transfer to the application, or the halt loop,
\* and nothing of that boot follows it; under fair scheduling every boot
\* reaches one of the three; the receive loop runs at most ceil(len / chunk
\* size) times.
C19_EveryBootTerminates ==
    /\ [][pc' = "boot" => pc \in {"reset", "app", "halt"}]_vars
    /\ [][(pc \in {"reset", "app", "halt"}) => (pc' = "boot")]_vars
    /\ [](hist.erase_ok /\ len[1] = 0 =>
            Cardinality({i \in DOMAIN ops : ops[i].at = "chunk"}) <= CeilDiv(len[2], CHUNK_SIZE))
    /\ (Running ~> pc \in {"reset", "app", "halt"})

\* C20: a committed update is bootable.  When the session has reached Done
\* (metadata programmed Ok, device about to reset), isHealthy over the flash
\* as it is returns true, so the next boot does not force update mode.
C20_CommittedIsHealthy ==
    pc = "reset" => is_app_healthy(flash, APP_BASE)

=============================================================================
